---- MODULE Spec2Model ----
(***************************************************************************)
(* Session establishment and lifecycle of a terminal document:             *)
(* web/packages/teleterm/src/ui/DocumentTerminal/useDocumentTerminal.ts    *)
(*                                                                         *)
(* Strings that the code takes apart (loginHost) are sequences of          *)
(* one-character strings.  A handler of the program is one action; the     *)
(* statements of a handler are composed in program order as functions on   *)
(* a record W that holds every variable, and fx lists, in order, the calls *)
(* to collaborators made by the handler that ran last.                     *)
(***************************************************************************)
EXTENDS Integers, Sequences, FiniteSets, TLC

\* Number of runs of startTerminal (the mount run plus the reconnects).
MaxRuns == 2
\* Number of data events the undisposed process handles have emitted in all.
MaxData == 2
\* Length of the loginHost strings the resolver is run on (SpecResolve).
MaxLen == 3

VARIABLES
  doc,        \* the document as held by DocumentsService (and rendered)
  closed,     \* documentsService.close(doc.uri) was called
  clusterKnown, \* clustersService.findCluster(clusterUri) finds the cluster
  hook,       \* "init" (rendered, effects not run), "mounted", "unmounted"
  attempt,    \* useAsync's attempt state: [status, data]
  asyncTask,  \* useAsync: the run whose promise is the current one (0: none)
  nRuns,      \* runs of startTerminal begun so far
  run,        \* run[r]: one invocation of the startTerminal callback
  proc,       \* proc[r]: the pty process the factory returned to run r
  fx          \* calls to collaborators made by the last handler, in order

vars == <<doc, closed, clusterKnown, hook, attempt, asyncTask, nRuns, run, proc, fx>>

Runs == 1..MaxRuns

----------------------------------------------------------------------------
(* Values *)

Undefined == <<"undefined">>

AT == "@"

\* loginHost inputs: a bare host, and a login that itself holds an '@'.
LoginHosts == { <<"w">>, <<"r", "@", "b", "@", "w">> }

NoUri == [leafClusterId |-> Undefined, serverId |-> Undefined]

\* types.DocumentTerminal: one record shape for the three kinds, a field a
\* kind does not have is Undefined ("absent" for status).
BaseDoc ==
  [kind |-> "", status |-> "absent", leafClusterId |-> Undefined,
   loginHost |-> Undefined, serverId |-> Undefined, serverUri |-> NoUri,
   login |-> Undefined, title |-> Undefined,
   initCommand |-> Undefined, cwd |-> Undefined]

ShellDocs ==
  { [BaseDoc EXCEPT !.kind = "doc.terminal_shell", !.initCommand = ic,
                    !.title = <<"T">>] : ic \in {Undefined, <<"c">>} }

LoginHostDocs ==
  { [BaseDoc EXCEPT !.kind = "doc.terminal_tsh_node", !.status = "connecting",
                    !.loginHost = lh, !.title = lh] : lh \in LoginHosts }

ServerIdDocs ==
  { [BaseDoc EXCEPT !.kind = "doc.terminal_tsh_node", !.status = "connecting",
                    !.serverId = <<"u">>,
                    !.serverUri = [leafClusterId |-> Undefined, serverId |-> <<"u">>],
                    !.login = <<"r">>, !.title = <<"r", "@", "w">>] }

KubeDocs ==
  { [BaseDoc EXCEPT !.kind = "doc.terminal_tsh_kube", !.status = "connecting",
                    !.title = <<"k">>] }

\* Every string of 1 to n characters over a letter, a second letter and '@'.
RECURSIVE Strings(_)
Strings(n) ==
  IF n = 0 THEN {}
  ELSE LET shorter == Strings(n - 1)
       IN { <<c>> : c \in {"a", "b", AT} } \cup shorter
          \cup { s \o <<c>> : s \in shorter, c \in {"a", "b", AT} }

\* The documents `tsh ssh`-like input makes: any loginHost string.
ResolveDocs ==
  { [BaseDoc EXCEPT !.kind = "doc.terminal_tsh_node", !.status = "connecting",
                    !.loginHost = lh, !.title = lh] : lh \in Strings(MaxLen) }

InitialDocs ==
  { [d EXCEPT !.leafClusterId = leaf,
              !.serverUri = IF d.serverUri = NoUri THEN NoUri
                            ELSE [d.serverUri EXCEPT !.leafClusterId = leaf]] :
      d \in ShellDocs \cup LoginHostDocs \cup ServerIdDocs \cup KubeDocs,
      leaf \in {Undefined, <<"l">>} }

\* A document of a root cluster whose cluster is fetched or not, and a
\* document of a leaf cluster that is not fetched yet (restored documents).
\* The documents of a leaf cluster are the kube document and the two ssh
\* documents that carry a login; the ssh document typed with a login is
\* looked up in the leaf cluster only, the one typed without in the root.
InitialEnv ==
  { e \in [doc : InitialDocs, clusterKnown : BOOLEAN] :
      /\ e.clusterKnown => e.doc.leafClusterId = Undefined
      /\ e.doc.leafClusterId # Undefined =>
           e.doc.kind # "doc.terminal_shell" /\ e.doc.loginHost # <<"w">>
      /\ e.doc.loginHost = <<"r", "@", "b", "@", "w">> => ~e.clusterKnown }

NoCmd == [kind |-> "none"]

\* login and host are the variables of resolveLoginHost that live across its
\* await; the numbers count the calls the run has made.
NoRun == [pc |-> "unused", doc |-> BaseDoc, cmd |-> NoCmd, by |-> "",
          login |-> Undefined, host |-> Undefined,
          lookups |-> 0, resolvedUpdates |-> 0, errorUpdates |-> 0,
          builds |-> 0, createCalls |-> 0, captures |-> 0]

NoProc == [state |-> "none", opened |-> FALSE,
           exitCode |-> -1, n |-> 2, cwdPending |-> FALSE,
           dataEvents |-> 0, connectedUpdates |-> 0, disposals |-> 0,
           cwdUpdates |-> 0, initUpdates |-> 0]

\* The record of all variables a handler's statements act on.
W == [doc |-> doc, closed |-> closed, clusterKnown |-> clusterKnown,
      hook |-> hook, attempt |-> attempt, asyncTask |-> asyncTask,
      nRuns |-> nRuns, run |-> run, proc |-> proc, fx |-> <<>>]

Set(w) ==
  /\ doc' = w.doc
  /\ closed' = w.closed
  /\ clusterKnown' = w.clusterKnown
  /\ hook' = w.hook
  /\ attempt' = w.attempt
  /\ asyncTask' = w.asyncTask
  /\ nRuns' = w.nRuns
  /\ run' = w.run
  /\ proc' = w.proc
  /\ fx' = w.fx

Emit(w, op, r, arg) == [w EXCEPT !.fx = Append(@, <<op, r, arg>>)]

\* The handler resumes run r after the await of op: how the call ended is
\* listed first, before the calls the handler then makes.
Settled(w, op, r, outcome) == Emit(w, "settled:" \o op, r, outcome)

Init ==
  /\ \E e \in InitialEnv : doc = e.doc /\ clusterKnown = e.clusterKnown
  /\ closed = FALSE
  /\ hook = "init"
  /\ attempt = [status |-> "", data |-> 0]
  /\ asyncTask = 0
  /\ nRuns = 0
  /\ run = [r \in Runs |-> NoRun]
  /\ proc = [r \in Runs |-> NoProc]
  /\ fx = <<>>

----------------------------------------------------------------------------
(* Collaborators *)

\* 'status' in doc
TracksStatus(d) == d.status # "absent"

\* isDocumentTshNodeWithLoginHost: an SSH document that has no serverId yet.
isDocumentTshNodeWithLoginHost(d) ==
  d.kind = "doc.terminal_tsh_node" /\ d.serverId = Undefined

\* A merge-patch: the fields of patch replace those of d.
Merge(d, patch) ==
  [f \in DOMAIN d |-> IF f \in DOMAIN patch THEN patch[f] ELSE d[f]]

\* documentsService.update(doc.uri, patch), issued by run r.
update(w, r, patch, tag) ==
  Emit([w EXCEPT !.doc = Merge(@, patch)], "update", r, tag)

\* documentsService.close(doc.uri)
close(w, r) == Emit([w EXCEPT !.closed = TRUE], "close", r, "")

RECURSIVE SumTo(_, _)
SumTo(f, n) == IF n = 0 THEN 0 ELSE f[n] + SumTo(f, n - 1)

\* routing.getServerUri / routing.parseServerUri
getServerUri(leafClusterId, serverId) ==
  [leafClusterId |-> leafClusterId, serverId |-> serverId]

parseServerUri(serverUri) == [params |-> [serverId |-> serverUri.serverId]]

\* ptyProcess.dispose(): listeners removed, process killed.  What the
\* listeners closed over is unreachable from then on.
dispose(w, r) ==
  Emit([w EXCEPT !.proc[r] = [NoProc EXCEPT !.state = "disposed",
                                            !.disposals = w.proc[r].disposals + 1,
                                            !.exitCode = w.proc[r].exitCode]],
       "dispose", r, "")

----------------------------------------------------------------------------
(* useDocumentTerminal: the effect, and useAsync's attempt *)

\* Mutant of useEffect_cleanup: the effect returns no cleanup.
useEffect_cleanup_Skipped(w, a) == w

\* The cleanup the effect returns, closed over the attempt it was rendered with.
useEffect_cleanup(w, a) ==
  IF a.status = "success" THEN dispose(w, a.data) ELSE w

\* useAsync's setState: the hook renders again with attempt a, and since the
\* effect depends on [attempt] the cleanup of the previous render runs.  The
\* effect body itself starts nothing then: a is never the empty attempt.
\* An unmounted component's state is not updated.
setAttempt(w, a, r) ==
  IF w.hook # "mounted" THEN w
  ELSE useEffect_cleanup(
         Emit([w EXCEPT !.attempt = a], "setState", r, a.status), w.attempt)

\* The promise of run r resolved: a stale promise's result is discarded.
useAsync_fulfil(w, r) ==
  LET w1 == [w EXCEPT !.run[r].pc = "fulfilled"]
  IN IF w1.asyncTask = r
     THEN setAttempt(w1, [status |-> "success", data |-> r], r)
     ELSE w1

useAsync_reject(w, r) ==
  LET w1 == [w EXCEPT !.run[r].pc = "rejected"]
  IN IF w1.asyncTask = r
     THEN setAttempt(w1, [status |-> "error", data |-> 0], r)
     ELSE w1

\* Mutant of startTerminal_catch: the error is rethrown, the status not set.
startTerminal_catch_Rethrow(w, r) == useAsync_reject(w, r)

\* Mutant of startTerminal_catch: the status is set and the error is not
\* rethrown, so the callback returns.
startTerminal_catch_Swallow(w, r) ==
  LET w1 == IF TracksStatus(w.run[r].doc)
            THEN update([w EXCEPT !.run[r].errorUpdates = @ + 1], r,
                        [status |-> "error"], "status:error")
            ELSE w
  IN useAsync_fulfil(w1, r)

\* The catch block of the startTerminal callback.
startTerminal_catch(w, r) ==
  LET w1 == IF TracksStatus(w.run[r].doc)
            THEN update([w EXCEPT !.run[r].errorUpdates = @ + 1], r,
                        [status |-> "error"], "status:error")
            ELSE w
  IN useAsync_reject(w1, r)

\* The callback handed to useAsync, after a step of startTerminalSession:
\* a throw goes through the catch block, a return resolves the promise.
startTerminal_settle(w, r) ==
  CASE w.run[r].pc = "throwing" -> startTerminal_catch(w, r)
    [] w.run[r].pc = "returned" -> useAsync_fulfil(w, r)
    [] OTHER -> w

Throw(w, r) == [w EXCEPT !.run[r].pc = "throwing"]

----------------------------------------------------------------------------
(* resolveLoginHost *)

\* String.prototype.split('@')
RECURSIVE split(_)
split(s) ==
  IF s = <<>> THEN << <<>> >>
  ELSE LET rest == split(Tail(s))
       IN IF Head(s) = AT THEN << <<>> >> \o rest
          ELSE << <<Head(s)>> \o rest[1] >> \o Tail(rest)

\* Array.prototype.join('@')
RECURSIVE join(_)
join(parts) ==
  IF Len(parts) = 0 THEN <<>>
  ELSE IF Len(parts) = 1 THEN parts[1]
  ELSE parts[1] \o <<AT>> \o join(Tail(parts))

\* Mutant of parseLoginHost: the first token is the login, the second the host.
parseLoginHost_TwoTokens(loginHost) ==
  LET parts == split(loginHost)
  IN IF Len(parts) > 1
     THEN [login |-> parts[1], host |-> parts[2]]
     ELSE [login |-> Undefined, host |-> parts[1]]

\* The login and the host that resolveLoginHost takes from loginHost.
parseLoginHost(loginHost) ==
  LET parts == split(loginHost)
  IN IF Len(parts) > 1
     THEN [login |-> join(SubSeq(parts, 1, Len(parts) - 1)),
           host |-> parts[Len(parts)]]
     ELSE [login |-> Undefined, host |-> parts[1]]

\* The outcomes of retryWithRelogin(() => getServerByHostname(clusterUri, host)).
LookupOutcomes == {"found", "notfound", "ambiguous", "error"}

\* The server a successful lookup of host returns: its UUID, and the hostname
\* the cluster has for it, which need not be spelled as the host was typed.
FoundServer(leafClusterId, host) ==
  [uri |-> getServerUri(leafClusterId, <<"u">>), hostname |-> <<"H">> \o host]

\* resolveLoginHost up to the await: the lookup is issued.
resolveLoginHost_call(w, r) ==
  LET p == parseLoginHost(w.run[r].doc.loginHost)
  IN Emit([w EXCEPT !.run[r].pc = "lookup", !.run[r].lookups = @ + 1,
                    !.run[r].login = p.login, !.run[r].host = p.host],
          "getServerByHostname", r, p.host)

\* Mutant of docFieldsToUpdate: the title is built from the host as typed.
docFieldsToUpdate_TypedHost(d, p, outcome) ==
  LET serverUri == IF outcome = "found"
                   THEN FoundServer(d.leafClusterId, p.host).uri
                   ELSE getServerUri(d.leafClusterId, p.host)
  IN [loginHost |-> Undefined,
      serverId |-> parseServerUri(serverUri).params.serverId,
      serverUri |-> serverUri,
      login |-> p.login,
      title |-> IF p.login # Undefined /\ p.login # <<>>
                THEN p.login \o <<AT>> \o p.host
                ELSE p.host]

\* Mutant of docFieldsToUpdate: no fallback to the host when no server is found.
docFieldsToUpdate_NoFallback(d, p, outcome) ==
  LET server == FoundServer(d.leafClusterId, p.host)
  IN [loginHost |-> Undefined,
      serverId |-> parseServerUri(server.uri).params.serverId,
      serverUri |-> server.uri,
      login |-> p.login,
      title |-> IF p.login # Undefined /\ p.login # <<>>
                THEN p.login \o <<AT>> \o server.hostname
                ELSE server.hostname]

\* The fields resolveLoginHost writes, given the outcome of the lookup.
docFieldsToUpdate(d, p, outcome) ==
  LET serverUri == IF outcome = "found"
                   THEN FoundServer(d.leafClusterId, p.host).uri
                   ELSE getServerUri(d.leafClusterId, p.host)
      serverHostname == IF outcome = "found"
                        THEN FoundServer(d.leafClusterId, p.host).hostname
                        ELSE p.host
      title == IF p.login # Undefined /\ p.login # <<>>
               THEN p.login \o <<AT>> \o serverHostname
               ELSE serverHostname
  IN [loginHost |-> Undefined,
      serverId |-> parseServerUri(serverUri).params.serverId,
      serverUri |-> serverUri,
      login |-> p.login,
      title |-> title]

\* Mutant of resolveLoginHost_catch: every error of the lookup is logged and
\* none is rethrown.
resolveLoginHost_catch_Swallow(w, r, outcome) ==
  IF outcome \in {"ambiguous", "error"} THEN Emit(w, "logger.error", r, "") ELSE w

\* The catch block around the lookup: AmbiguousHostnameError is logged, any
\* other error is rethrown.
resolveLoginHost_catch(w, r, outcome) ==
  IF outcome = "ambiguous" THEN Emit(w, "logger.error", r, "")
  ELSE IF outcome = "error" THEN Throw(w, r)
  ELSE w

\* Mutant of resolveLoginHost_resume: the document returned is spread from the
\* fields without the title, which only the store gets.
resolveLoginHost_resume_StaleTitle(w, r, outcome) ==
  LET w1 == resolveLoginHost_catch(
              Settled(w, "getServerByHostname", r, outcome), r, outcome)
  IN IF w1.run[r].pc = "throwing" THEN w1
  ELSE LET d == w.run[r].doc
           fields == docFieldsToUpdate(d, [login |-> w.run[r].login,
                                           host |-> w.run[r].host], outcome)
           w2 == update([w1 EXCEPT !.run[r].resolvedUpdates = @ + 1], r,
                        fields, "resolved")
       IN [w2 EXCEPT !.run[r].doc = Merge(d, [fields EXCEPT !.title = d.title]),
                     !.run[r].pc = "resolved"]

\* resolveLoginHost from the await on: unless the catch block rethrows, the
\* store is updated and the updated document is returned to
\* startTerminalSession.
resolveLoginHost_resume(w, r, outcome) ==
  LET w1 == resolveLoginHost_catch(
              Settled(w, "getServerByHostname", r, outcome), r, outcome)
  IN IF w1.run[r].pc = "throwing" THEN w1
  ELSE LET d == w.run[r].doc
           fields == docFieldsToUpdate(d, [login |-> w.run[r].login,
                                           host |-> w.run[r].host], outcome)
           w2 == update([w1 EXCEPT !.run[r].resolvedUpdates = @ + 1], r,
                        fields, "resolved")
       IN [w2 EXCEPT !.run[r].doc = Merge(d, fields), !.run[r].pc = "resolved"]

----------------------------------------------------------------------------
(* createCmd, setUpPtyProcess, createPtyProcess *)

ProxyHost == <<"p">>

\* getClusterName throws when the cluster is not fetched and the URI has no leaf.
ClusterNameThrows(w, d) == ~w.clusterKnown /\ d.leafClusterId = Undefined

getClusterName(w, d) ==
  IF w.clusterKnown THEN <<"n">> ELSE d.leafClusterId

createCmd(d, proxyHost, clusterName) ==
  LET base == [kind |-> "", proxyHost |-> proxyHost, clusterName |-> clusterName,
               login |-> Undefined, serverId |-> Undefined,
               leafClusterId |-> d.leafClusterId,
               cwd |-> Undefined, initCommand |-> Undefined]
  IN IF d.kind = "doc.terminal_tsh_node"
     THEN IF isDocumentTshNodeWithLoginHost(d)
          THEN [base EXCEPT !.kind = "throw"]
          ELSE [base EXCEPT !.kind = "pty.tsh-login", !.login = d.login,
                            !.serverId = d.serverId]
     ELSE IF d.kind = "doc.terminal_tsh_kube"
     THEN [base EXCEPT !.kind = "pty.tsh-kube-login"]
     ELSE [base EXCEPT !.kind = "pty.shell", !.cwd = d.cwd,
                       !.initCommand = d.initCommand]

\* setUpPtyProcess up to the await of createPtyProcess.
setUpPtyProcess_begin(w, r) ==
  LET d == w.run[r].doc
  IN IF ClusterNameThrows(w, d) THEN Throw(w, r)
     ELSE LET cmd == createCmd(d, ProxyHost, getClusterName(w, d))
              w1 == Emit([w EXCEPT !.run[r].cmd = cmd, !.run[r].builds = @ + 1],
                         "createCmd", r, cmd.kind)
          IN IF cmd.kind = "throw" THEN Throw(w1, r)
             ELSE Emit([w1 EXCEPT !.run[r].pc = "create",
                                  !.run[r].createCalls = @ + 1],
                       "createPtyProcess", r, cmd.kind)

\* ctx.usageService.captureProtocolUse(clusterUri, protocol)
captureProtocolUse(w, r, protocol) ==
  Emit([w EXCEPT !.run[r].captures = @ + 1], "captureProtocolUse", r, protocol)

CreationOutcomes == {"Ok", "ResolveShellEnvTimeout", "fail"}

\* Mutant of createPtyProcess_resume: a timeout of the shell environment is
\* reported and then treated as a failed creation.
createPtyProcess_resume_TimeoutFails(w, r, outcome) ==
  IF outcome = "fail" THEN Throw(Settled(w, "createPtyProcess", r, outcome), r)
  ELSE IF outcome = "ResolveShellEnvTimeout"
  THEN Throw(Emit(Settled(w, "createPtyProcess", r, outcome),
                  "notifyWarning", r, ""), r)
  ELSE [Settled(w, "createPtyProcess", r, outcome)
          EXCEPT !.proc[r].state = "created"]

\* createPtyProcess from the await on.
createPtyProcess_resume(w, r, outcome) ==
  IF outcome = "fail" THEN Throw(Settled(w, "createPtyProcess", r, outcome), r)
  ELSE LET w1 == [Settled(w, "createPtyProcess", r, outcome)
                    EXCEPT !.proc[r].state = "created"]
       IN IF outcome = "ResolveShellEnvTimeout"
          THEN Emit(w1, "notifyWarning", r, "") ELSE w1

\* Mutant of setUpPtyProcess_resume: the document is marked as connected as
\* soon as the process is created.
setUpPtyProcess_resume_Connected(w, r, outcome) ==
  LET w1 == createPtyProcess_resume(w, r, outcome)
      kind == w.run[r].cmd.kind
  IN IF w1.run[r].pc = "throwing" THEN w1
     ELSE LET w2 == IF kind = "pty.tsh-login"
                    THEN captureProtocolUse(w1, r, "ssh") ELSE w1
              w3 == IF kind = "pty.tsh-kube-login"
                    THEN captureProtocolUse(w2, r, "kube") ELSE w2
              w4 == IF TracksStatus(w.run[r].doc)
                    THEN update(w3, r, [status |-> "connected"], "status:connected")
                    ELSE w3
          IN [w4 EXCEPT !.proc[r].state = "live", !.run[r].pc = "returned"]

\* Mutant of setUpPtyProcess_resume: the usage is captured whether or not the
\* process was created.
setUpPtyProcess_resume_CaptureAlways(w, r, outcome) ==
  LET w1 == createPtyProcess_resume(w, r, outcome)
      kind == w.run[r].cmd.kind
      w2 == IF kind = "pty.tsh-login"
            THEN captureProtocolUse(w1, r, "ssh") ELSE w1
      w3 == IF kind = "pty.tsh-kube-login"
            THEN captureProtocolUse(w2, r, "kube") ELSE w2
  IN IF w1.run[r].pc = "throwing" THEN w3
     ELSE [w3 EXCEPT !.proc[r].state = "live", !.run[r].pc = "returned"]

\* setUpPtyProcess from the await on: usage capture, then the listeners.
setUpPtyProcess_resume(w, r, outcome) ==
  LET w1 == createPtyProcess_resume(w, r, outcome)
      kind == w.run[r].cmd.kind
  IN IF w1.run[r].pc = "throwing" THEN w1
     ELSE LET w2 == IF kind = "pty.tsh-login"
                    THEN captureProtocolUse(w1, r, "ssh") ELSE w1
              w3 == IF kind = "pty.tsh-kube-login"
                    THEN captureProtocolUse(w2, r, "kube") ELSE w2
          IN [w3 EXCEPT !.proc[r].state = "live", !.run[r].pc = "returned"]

----------------------------------------------------------------------------
(* startTerminalSession *)

\* Mutant of startTerminalSession_begin: the document is not resolved first.
startTerminalSession_NoResolve(w, r) == setUpPtyProcess_begin(w, r)

startTerminalSession_begin(w, r) ==
  IF isDocumentTshNodeWithLoginHost(w.run[r].doc)
  THEN resolveLoginHost_call(w, r)
  ELSE setUpPtyProcess_begin(w, r)

\* Mutant of startTerminalSession_afterLookup: the document resolveLoginHost
\* returns is not assigned to doc.
startTerminalSession_afterLookup_Unassigned(w, r, outcome) ==
  LET w1 == resolveLoginHost_resume(w, r, outcome)
  IN IF w1.run[r].pc = "throwing" THEN w1
     ELSE setUpPtyProcess_begin([w1 EXCEPT !.run[r].doc = w.run[r].doc], r)

startTerminalSession_afterLookup(w, r, outcome) ==
  LET w1 == resolveLoginHost_resume(w, r, outcome)
  IN IF w1.run[r].pc = "throwing" THEN w1 ELSE setUpPtyProcess_begin(w1, r)

\* startTerminal: useAsync's run.  The callback runs up to its first await,
\* the attempt becomes processing, and a callback that threw at once is
\* settled.  d is the document of the render the callback closes over.
startTerminal(w, d, by) ==
  LET r == w.nRuns + 1
      w1 == [w EXCEPT !.nRuns = r, !.asyncTask = r,
                      !.run[r] = [NoRun EXCEPT !.doc = d, !.by = by,
                                               !.pc = "started"]]
      w2 == startTerminalSession_begin(w1, r)
      w3 == setAttempt(w2, [status |-> "processing", data |-> 0], r)
  IN startTerminal_settle(w3, r)

\* Mutant of reconnect: the new run is started before the status is updated.
reconnect_StartFirst(w) ==
  LET w1 == startTerminal(w, w.doc, "reconnect")
  IN IF TracksStatus(w.doc)
     THEN update(w1, w1.nRuns, [status |-> "connecting"], "status:connecting")
     ELSE w1

reconnect(w) ==
  LET w1 == IF TracksStatus(w.doc)
            THEN update(w, w.nRuns + 1, [status |-> "connecting"],
                        "status:connecting")
            ELSE w
  IN startTerminal(w1, w.doc, "reconnect")

\* The effect body on mount.
useEffect_body(w) ==
  IF w.attempt.status = "" THEN startTerminal(w, w.doc, "mount") ELSE w

----------------------------------------------------------------------------
(* Listeners of the pty process *)

\* refreshTitle up to the await of getCwd.
refreshTitle_call(w, r) ==
  IF w.run[r].cmd.kind # "pty.shell" THEN w
  ELSE [w EXCEPT !.proc[r].cwdPending = TRUE]

\* refreshTitle from the await on; cwd is what getCwd returned.
refreshTitle_resume(w, r, cwd) ==
  LET name == getClusterName(w, w.run[r].doc)
      w1 == [w EXCEPT !.proc[r].cwdPending = FALSE]
  IN update([w1 EXCEPT !.proc[r].cwdUpdates = @ + 1], r,
            [cwd |-> cwd,
             title |-> (IF cwd # <<>> THEN cwd ELSE <<"T">>) \o <<".">> \o name],
            "cwd")

\* Mutant of removeInitCommand: nothing is written when the stored document
\* has no initCommand (any more).
removeInitCommand_IfStored(w, r) ==
  IF w.run[r].doc.kind # "doc.terminal_shell" \/ w.doc.initCommand = Undefined
  THEN w
  ELSE update([w EXCEPT !.proc[r].initUpdates = @ + 1], r,
              [initCommand |-> Undefined], "initCommand")

removeInitCommand(w, r) ==
  IF w.run[r].doc.kind # "doc.terminal_shell" THEN w
  ELSE update([w EXCEPT !.proc[r].initUpdates = @ + 1], r,
              [initCommand |-> Undefined], "initCommand")

onOpen(w, r) ==
  removeInitCommand(refreshTitle_call([w EXCEPT !.proc[r].opened = TRUE], r), r)

\* The function handed to runOnce.
markDocumentAsConnected(w, r) ==
  IF TracksStatus(w.run[r].doc)
  THEN update([w EXCEPT !.proc[r].connectedUpdates = @ + 1], r,
              [status |-> "connected"], "status:connected")
  ELSE w

\* runOnce(func): every call of the function it returns subtracts 1 from n
\* (2 at first), and func runs while n is still positive after that.
runOnce_count(w, r) == [w EXCEPT !.proc[r].n = @ - 1]

runOnce_runs(w, r) == w.proc[r].n > 0

\* Mutant of markDocumentAsConnectedOnce: runOnce is called once for all
\* processes, so that they share the gate of the first.
markDocumentAsConnectedOnce_SharedGate(w, r) ==
  LET w1 == runOnce_count(w, 1)
  IN IF runOnce_runs(w1, 1) THEN markDocumentAsConnected(w1, r) ELSE w1

markDocumentAsConnectedOnce(w, r) ==
  LET w1 == runOnce_count(w, r)
  IN IF runOnce_runs(w1, r) THEN markDocumentAsConnected(w1, r) ELSE w1

\* Mutant of onData: the listener calls the function runOnce was given.
onData_Ungated(w, r) ==
  markDocumentAsConnected([w EXCEPT !.proc[r].dataEvents = @ + 1], r)

onData(w, r) ==
  markDocumentAsConnectedOnce([w EXCEPT !.proc[r].dataEvents = @ + 1], r)

\* The component leaves the tree: the cleanup of the last render runs.
unmount(w) ==
  IF w.hook # "mounted" THEN w
  ELSE useEffect_cleanup(
         Emit([w EXCEPT !.hook = "unmounted"], "unmount", 0, w.attempt.status),
         w.attempt)

\* Mutant of onExit: the document is closed whatever the exit code.
onExit_AnyCode(w, r, exitCode) ==
  unmount(close([w EXCEPT !.proc[r] = [NoProc EXCEPT !.state = "live",
                                                     !.exitCode = exitCode,
                                                     !.cwdPending = w.proc[r].cwdPending]],
                r))

\* A closed document is removed from the workspace, which unmounts the
\* component that renders it.
onExit(w, r, exitCode) ==
  LET w1 == [w EXCEPT !.proc[r] = [NoProc EXCEPT !.state = "live",
                                                 !.exitCode = exitCode,
                                                 !.cwdPending = w.proc[r].cwdPending]]
  IN IF exitCode = 0 THEN unmount(close(w1, r)) ELSE w1

----------------------------------------------------------------------------
(* Actions *)

\* The component is mounted: the effect runs for the first time.
Mount ==
  /\ hook = "init"
  /\ Set(useEffect_body([W EXCEPT !.hook = "mounted"]))

Reconnect ==
  /\ hook = "mounted"
  /\ nRuns < MaxRuns
  /\ Set(reconnect(W))

\* The component is unmounted: the cleanup of the last render runs.
Unmount ==
  /\ hook = "mounted"
  /\ Set(unmount(W))

LookupReturn ==
  \E r \in Runs, outcome \in LookupOutcomes :
    /\ run[r].pc = "lookup"
    /\ Set(startTerminal_settle(startTerminalSession_afterLookup(W, r, outcome), r))

CreateReturn ==
  \E r \in Runs, outcome \in CreationOutcomes :
    /\ run[r].pc = "create"
    /\ Set(startTerminal_settle(setUpPtyProcess_resume(W, r, outcome), r))

\* A live process emits events until it exits or is disposed.
Emits(r) == proc[r].state = "live" /\ proc[r].exitCode = -1

Open ==
  \E r \in Runs :
    /\ Emits(r)
    /\ ~proc[r].opened
    /\ Set(onOpen(W, r))

GetCwdReturn ==
  \E r \in Runs, cwd \in {<<>>, <<"d">>} :
    /\ proc[r].cwdPending
    /\ Set(refreshTitle_resume(W, r, cwd))

Data ==
  \E r \in Runs :
    /\ Emits(r)
    /\ proc[r].opened
    /\ SumTo([q \in Runs |-> proc[q].dataEvents], MaxRuns) < MaxData
    /\ Set(onData(W, r))

Exit ==
  \E r \in Runs, exitCode \in {0, 1} :
    /\ Emits(r)
    /\ Set(onExit(W, r, exitCode))

Next ==
  \/ Mount
  \/ Reconnect
  \/ Unmount
  \/ LookupReturn
  \/ CreateReturn
  \/ Open
  \/ GetCwdReturn
  \/ Data
  \/ Exit

Spec == Init /\ [][Next]_vars

\* The resolver alone, on every loginHost string up to MaxLen characters:
\* the mount run up to the lookup, and the return of the lookup.
InitResolve ==
  /\ \E d \in ResolveDocs : doc = d
  /\ clusterKnown = TRUE
  /\ closed = FALSE
  /\ hook = "init"
  /\ attempt = [status |-> "", data |-> 0]
  /\ asyncTask = 0
  /\ nRuns = 0
  /\ run = [r \in Runs |-> NoRun]
  /\ proc = [r \in Runs |-> NoProc]
  /\ fx = <<>>

NextResolve ==
  \/ Mount
  \/ LookupReturn

SpecResolve == InitResolve /\ [][NextResolve]_vars

\* The attempt alone: the runs of startTerminal and the teardown, without the
\* events of the processes (no listener touches the attempt).  A call that
\* is awaited, the lookup or the creation of the process, returns or fails
\* in the end.  Of the documents that differ only in a text no run of
\* startTerminal branches on (the initCommand, the login in loginHost), one
\* is taken.
InitAttempt ==
  /\ Init
  /\ doc.initCommand = Undefined
  /\ doc.loginHost \in {Undefined, <<"w">>}

NextAttempt ==
  \/ Mount
  \/ Reconnect
  \/ Unmount
  \/ LookupReturn
  \/ CreateReturn

SpecAttempt ==
  /\ InitAttempt
  /\ [][NextAttempt]_vars
  /\ WF_vars(LookupReturn \/ CreateReturn)

----------------------------------------------------------------------------
(* Properties *)

\* The places of effect e in the list of the last handler.
At(e) == { i \in 1..Len(fx) : fx[i] = e }

\* The steps of run r of startTerminalSession that the last handler made.
StepsOf(r) ==
  { i \in 1..Len(fx) :
      /\ fx[i][2] = r
      /\ fx[i][1] \in {"getServerByHostname", "createCmd", "createPtyProcess"} }

InFlight == { r \in Runs : run[r].pc \in {"lookup", "create"} }

Total(field) == SumTo([r \in Runs |-> run[r][field]], MaxRuns)

\* C1: at most one run of the start procedure (resolve, build, launch) is in
\* flight at any time, whatever the interleaving of mount, reconnect and the
\* completions of the async calls.
C1_SingleFlight == Cardinality(InFlight) <= 1

\* C2: on a status-tracking document the first data event of a handle sets
\* the status to connected, and however many data events the handle has
\* emitted, exactly one connected update was issued for it: a handler that
\* issues the update is the handler of the first data event.
C2_ConnectedOncePerAttempt ==
  \A r \in Runs :
    TracksStatus(run[r].doc) =>
      /\ proc[r].connectedUpdates = (IF proc[r].dataEvents >= 1 THEN 1 ELSE 0)
      /\ At(<<"update", r, "status:connected">>) # {} =>
           /\ proc[r].dataEvents = 1
           /\ doc.status = "connected"
           /\ Len(fx) = 1

C2_Witness ==
  \E r \in Runs :
    /\ TracksStatus(run[r].doc)
    /\ proc[r].dataEvents >= 2
    /\ proc[r].connectedUpdates = 1
    /\ fx = <<>>

\* C3: an exit event with exit code 0 closes the document, and an exit event
\* with any other exit code closes nothing: the document is closed exactly
\* when some process has exited with code 0, and a handler that closes it is
\* the handler of such an exit.
C3_ExitCodeDecidesClose ==
  /\ closed <=> \E r \in Runs : proc[r].exitCode = 0
  /\ \A r \in Runs :
       /\ proc[r].exitCode = 0 => closed
       /\ At(<<"close", r, "">>) # {} => proc[r].exitCode = 0

C3_Witness ==
  \E r, q \in Runs :
    /\ proc[r].exitCode = 1
    /\ proc[q].exitCode = 0
    /\ closed
    /\ At(<<"close", q, "">>) # {}

\* C4: in the handler of a reconnect on a status-tracking document, the
\* update that sets the status to connecting is issued before every step of
\* the new run (lookup, command build, process creation).
C4_ConnectingBeforeNewAttempt ==
  \A r \in Runs :
    (/\ run[r].by = "reconnect"
     /\ TracksStatus(run[r].doc)
     /\ At(<<"setState", r, "processing">>) # {})
    => /\ At(<<"update", r, "status:connecting">>) # {}
       /\ \A i \in At(<<"update", r, "status:connecting">>), j \in StepsOf(r) : i < j

C4_Witness ==
  \E r \in Runs :
    /\ run[r].by = "reconnect"
    /\ TracksStatus(run[r].doc)
    /\ At(<<"setState", r, "processing">>) # {}
    /\ At(<<"update", r, "status:connecting">>) # {}
    /\ StepsOf(r) # {}

\* C5: after a reconnect no process handle of an earlier run is left
\* undisposed.
C5_EarlierHandlesDisposed ==
  \A r \in Runs : r < nRuns => proc[r].state # "live"

\* C6: once the component is torn down, no process handle the factory
\* returned is left undisposed, whenever the factory returned it.
C6_NoHandleOutlivesTeardown ==
  hook = "unmounted" => \A r \in Runs : proc[r].state # "live"

\* C7: a teardown in the success state disposes the handle of the attempt,
\* once, and no other handle; a teardown in any other attempt state (idle,
\* running, error) disposes nothing.
C7_TeardownDisposesOnSuccess ==
  \A i \in At(<<"unmount", 0, attempt.status>>) :
    LET disposes == { j \in 1..Len(fx) : fx[j][1] = "dispose" }
    IN IF attempt.status = "success"
       THEN /\ disposes = {i + 1}
            /\ fx[i + 1][2] = attempt.data
            /\ proc[attempt.data].state = "disposed"
            /\ proc[attempt.data].disposals = 1
       ELSE disposes = {}

C7_Witness ==
  /\ hook = "unmounted"
  /\ attempt.status = "success"
  /\ At(<<"unmount", 0, "success">>) # {}
  /\ At(<<"dispose", attempt.data, "">>) # {}
  /\ proc[attempt.data].disposals = 1

\* C8: when a run on a status-tracking document throws, the status is set to
\* error (once) before the attempt is set to error, and the run is rejected:
\* the attempt of a mounted component whose current run threw is error, and
\* no attempt is ever success with that run.
C8_ErrorStatusBeforeRejection ==
  \A r \in Runs :
    TracksStatus(run[r].doc) =>
      /\ \A i \in At(<<"setState", r, "error">>) :
           \E j \in At(<<"update", r, "status:error">>) : j < i
      /\ run[r].pc = "rejected" =>
           /\ run[r].errorUpdates = 1
           /\ ~(attempt.status = "success" /\ attempt.data = r)
           /\ (asyncTask = r /\ hook = "mounted") => attempt.status = "error"
      /\ run[r].pc # "rejected" => run[r].errorUpdates = 0

C8_Witness ==
  \E r \in Runs :
    /\ TracksStatus(run[r].doc)
    /\ run[r].pc = "rejected"
    /\ At(<<"setState", r, "error">>) # {}
    /\ attempt.status = "error"
    /\ doc.status = "error"

\* C9: the command builder is never handed an SSH document without a
\* serverId: each run resolves a loginHost document first, so createCmd
\* never throws and the command carries the resolved serverId.
C9_BuilderGetsResolvedDoc ==
  \A r \in Runs :
    /\ run[r].cmd.kind # "throw"
    /\ (run[r].builds > 0 /\ run[r].doc.kind = "doc.terminal_tsh_node")
       => /\ run[r].doc.serverId # Undefined
          /\ run[r].doc.loginHost = Undefined
          /\ run[r].cmd.kind = "pty.tsh-login"
          /\ run[r].cmd.serverId = run[r].doc.serverId

C9_Witness ==
  \E r \in Runs :
    /\ run[r].lookups = 1
    /\ run[r].resolvedUpdates = 1
    /\ run[r].builds = 1
    /\ run[r].pc = "create"

\* C10: over the lifetime of a document the hostname lookup is issued at most
\* once and the resolved fields are written to the store at most once.
C10_ResolvedAtMostOnce ==
  Total("lookups") <= 1 /\ Total("resolvedUpdates") <= 1

\* The title resolveLoginHost derives from a login and a hostname.
TitleOf(login, hostname) ==
  IF login # Undefined /\ login # <<>> THEN login \o <<AT>> \o hostname ELSE hostname

\* The handler that ran last resumed run r after the lookup ended with o.
LookupSettled(r, o) == At(<<"settled:getServerByHostname", r, o>>) # {}

\* C11: when the lookup fails with AmbiguousHostnameError (which is logged)
\* or returns no server, resolveLoginHost does not throw: it writes the
\* resolved fields, the serverId of the document it returns is the host taken
\* from loginHost and the title is built from that host, and the run goes on
\* to setUpPtyProcess, which builds the command for that serverId and calls
\* createPtyProcess (or fails, after the resolution, where the name of the
\* cluster cannot be determined).
C11_FallbackToHost ==
  \A r \in Runs, o \in {"notfound", "ambiguous"} :
    LookupSettled(r, o) =>
      /\ run[r].resolvedUpdates = 1
      /\ At(<<"update", r, "resolved">>) # {}
      /\ (At(<<"logger.error", r, "">>) # {}) <=> (o = "ambiguous")
      /\ run[r].doc.loginHost = Undefined
      /\ run[r].doc.serverId = run[r].host
      /\ run[r].doc.serverUri = getServerUri(run[r].doc.leafClusterId, run[r].host)
      /\ run[r].doc.title = TitleOf(run[r].login, run[r].host)
      /\ IF ClusterNameThrows(W, run[r].doc)
         THEN run[r].pc = "rejected" /\ run[r].builds = 0
         ELSE /\ run[r].pc = "create"
              /\ run[r].builds = 1
              /\ run[r].createCalls = 1
              /\ run[r].cmd.kind = "pty.tsh-login"
              /\ run[r].cmd.serverId = run[r].host
              /\ \A i \in At(<<"update", r, "resolved">>) :
                   \E j \in At(<<"createPtyProcess", r, "pty.tsh-login">>) : i < j

C11_Witness ==
  \E r \in Runs :
    /\ LookupSettled(r, "ambiguous")
    /\ run[r].pc = "create"
    /\ run[r].login = <<"r", "@", "b">>
    /\ run[r].doc.serverId = <<"w">>
    /\ run[r].doc.title = <<"r", "@", "b", "@", "w">>
    /\ run[r].cmd.serverId = <<"w">>

\* C12: when the lookup fails with an error other than AmbiguousHostnameError,
\* the run is rejected and the attempt, if the run is the current one, is
\* error; the only update the run issues sets the status to error: it writes
\* no resolved field, builds no command and creates no process.
C12_LookupErrorFailsAttempt ==
  \A r \in Runs :
    LookupSettled(r, "error") =>
      /\ run[r].pc = "rejected"
      /\ (asyncTask = r /\ hook = "mounted") => attempt.status = "error"
      /\ At(<<"update", r, "status:error">>) # {}
      /\ doc.status = "error"
      /\ run[r].errorUpdates = 1
      /\ \A i \in 1..Len(fx) : fx[i][1] = "update" => fx[i][3] = "status:error"
      /\ run[r].resolvedUpdates = 0
      /\ run[r].doc.loginHost # Undefined
      /\ run[r].doc.serverId = Undefined
      /\ run[r].builds = 0
      /\ run[r].createCalls = 0
      /\ run[r].cmd = NoCmd
      /\ proc[r].state = "none"

C12_Witness ==
  \E r \in Runs :
    /\ LookupSettled(r, "error")
    /\ attempt.status = "error"
    /\ doc.status = "error"
    /\ doc.loginHost # Undefined
    /\ doc.serverId = Undefined
    /\ proc[r].state = "none"

\* The place of the last '@' of s (0: s has none).
LastAt(s) ==
  LET ats == { i \in 1..Len(s) : s[i] = AT }
  IN IF ats = {} THEN 0 ELSE CHOOSE i \in ats : \A j \in ats : j <= i

\* C13: while the lookup of a run is pending, the host resolveLoginHost took
\* from loginHost is the text after the last '@' (the last token) and the
\* login is the text before the last '@' (the tokens before it, rejoined with
\* '@'); without an '@' the host is the whole string and the login is
\* absent.  The lookup was called with that host.
C13_LoginHostParsing ==
  \A r \in Runs :
    run[r].pc = "lookup" =>
      LET s == run[r].doc.loginHost
          k == LastAt(s)
      IN /\ run[r].host = SubSeq(s, k + 1, Len(s))
         /\ run[r].login = (IF k = 0 THEN Undefined ELSE SubSeq(s, 1, k - 1))
         /\ k > 0 => run[r].login \o <<AT>> \o run[r].host = s
         /\ \A i \in 1..Len(run[r].host) : run[r].host[i] # AT
         /\ At(<<"setState", r, "processing">>) # {}
              => At(<<"getServerByHostname", r, run[r].host>>) # {}

C13_Witness ==
  \E r \in Runs :
    /\ run[r].pc = "lookup"
    /\ run[r].doc.loginHost = <<"a", "@", "b">>
    /\ run[r].login = <<"a">>
    /\ run[r].host = <<"b">>
    /\ At(<<"getServerByHostname", r, <<"b">> >>) # {}

ResolvedFields == {"loginHost", "serverId", "serverUri", "login", "title"}

\* C14: a resolution that completes issues exactly one update of the store;
\* after it the stored document has no loginHost and has a serverId, a
\* serverUri and a title, and the document returned to startTerminalSession
\* carries for loginHost, serverId, serverUri, login and title the values
\* the store then holds (and the other fields it had).  A run has issued the
\* update exactly when its resolution completed.
C14_OneResolvedUpdate ==
  \A r \in Runs :
    /\ run[r].resolvedUpdates <= 1
    /\ run[r].lookups = 1 =>
         (run[r].resolvedUpdates = 1 <=> run[r].doc.loginHost = Undefined)
    /\ At(<<"update", r, "resolved">>) # {} =>
         /\ Cardinality(At(<<"update", r, "resolved">>)) = 1
         /\ LookupSettled(r, "found") \/ LookupSettled(r, "notfound")
              \/ LookupSettled(r, "ambiguous")
         /\ run[r].resolvedUpdates = 1
         /\ doc.loginHost = Undefined
         /\ doc.serverId # Undefined
         /\ doc.serverUri # NoUri
         /\ doc.title # Undefined
         /\ doc.login = run[r].login
         /\ \A f \in ResolvedFields : run[r].doc[f] = doc[f]
         /\ \A f \in {"kind", "leafClusterId", "initCommand", "cwd"} :
              run[r].doc[f] = doc[f]

C14_Witness ==
  \E r \in Runs :
    /\ At(<<"update", r, "resolved">>) # {}
    /\ LookupSettled(r, "found")
    /\ doc.loginHost = Undefined
    /\ doc.serverId = <<"u">>
    /\ doc.login = <<"r", "@", "b">>
    /\ run[r].doc.title = doc.title
    /\ run[r].doc.title = <<"r", "@", "b", "@", "H", "w">>

\* C15: after a resolution the title is login@hostname when loginHost gave a
\* login (one that is not the empty string: the code tests the login for
\* truth) and hostname otherwise.  When the lookup found a server, hostname
\* is the hostname of that server and serverUri and serverId are that
\* server's; otherwise hostname is the host taken from loginHost.
C15_TitleDerivation ==
  \A r \in Runs, o \in {"found", "notfound", "ambiguous"} :
    LookupSettled(r, o) =>
      LET d == run[r].doc
          server == FoundServer(d.leafClusterId, run[r].host)
          hostname == IF o = "found" THEN server.hostname ELSE run[r].host
          hasLogin == run[r].login # Undefined /\ Len(run[r].login) > 0
      IN /\ d.title = (IF hasLogin THEN run[r].login \o <<AT>> \o hostname
                                   ELSE hostname)
         /\ doc.title = d.title
         /\ d.login = run[r].login
         /\ o = "found" => d.serverUri = server.uri /\ d.serverId = <<"u">>
         /\ o # "found" => d.serverId = run[r].host

C15_Witness ==
  \E r \in Runs :
    /\ LookupSettled(r, "found")
    /\ run[r].login = <<"a">>
    /\ run[r].host = <<"b">>
    /\ doc.title = <<"a", "@", "H", "b">>
    /\ doc.serverId = <<"u">>

\* The handler that ran last resumed run r after createPtyProcess ended with o.
CreateSettled(r, o) == At(<<"settled:createPtyProcess", r, o>>) # {}

\* C16: when createPtyProcess reports ResolveShellEnvTimeout, exactly one
\* warning is notified and the launch goes on as for Ok: the process is live
\* with its listeners wired, the run is fulfilled, the attempt of the current
\* run is success with that process, and no status error is written.  With
\* Ok no warning is notified, and a warning is notified in no other case.
C16_ShellEnvTimeoutWarns ==
  \A r \in Runs :
    /\ \A o \in {"Ok", "ResolveShellEnvTimeout"} :
         CreateSettled(r, o) =>
           /\ Cardinality(At(<<"notifyWarning", r, "">>))
                = (IF o = "Ok" THEN 0 ELSE 1)
           /\ proc[r].state = "live"
           /\ Emits(r)
           /\ run[r].pc = "fulfilled"
           /\ (asyncTask = r /\ hook = "mounted")
                => attempt = [status |-> "success", data |-> r]
           /\ At(<<"update", r, "status:error">>) = {}
           /\ run[r].errorUpdates = 0
    /\ At(<<"notifyWarning", r, "">>) # {} => CreateSettled(r, "ResolveShellEnvTimeout")

C16_Witness ==
  \E r \in Runs :
    /\ CreateSettled(r, "ResolveShellEnvTimeout")
    /\ At(<<"notifyWarning", r, "">>) # {}
    /\ attempt = [status |-> "success", data |-> r]
    /\ Emits(r)
    /\ doc.status = "connecting"

\* The runs whose process was created from a command with an initCommand.
HandedInitCommand ==
  { r \in Runs : /\ run[r].pc = "fulfilled"
                 /\ run[r].cmd.kind = "pty.shell"
                 /\ run[r].cmd.initCommand # Undefined }

\* C17: once a process of a shell document has emitted open, the stored
\* document has no initCommand, a run started from then on builds a command
\* without initCommand, and over the lifetime of the document at most one
\* process is created from a command that carries the initCommand.
C17_InitCommandAtMostOnce ==
  /\ \A r \in Runs :
       (run[r].cmd.kind = "pty.shell" /\ proc[r].opened)
         => doc.initCommand = Undefined
  /\ Cardinality(HandedInitCommand) <= 1

\* C18: the open event of the process of a shell command issues, in its
\* handler, exactly one update that clears initCommand, and one getCwd
\* request whose return issues exactly one cwd/title update; the first does
\* not wait for the second.  This holds for every handle on its own: the
\* open event of the process of a reconnected run issues both again, also
\* when an earlier open has cleared the initCommand already.  The process of
\* another command issues neither.
C18_OpenUpdatesPerHandle ==
  \A r \in Runs :
    /\ proc[r].initUpdates <= 1
    /\ proc[r].cwdUpdates <= 1
    /\ run[r].cmd.kind # "pty.shell" =>
         proc[r].initUpdates = 0 /\ proc[r].cwdUpdates = 0 /\ ~proc[r].cwdPending
    /\ (run[r].cmd.kind = "pty.shell" /\ proc[r].opened) =>
         /\ proc[r].initUpdates = 1
         /\ proc[r].cwdUpdates = (IF proc[r].cwdPending THEN 0 ELSE 1)
    /\ (Emits(r) /\ ~proc[r].opened) =>
         proc[r].initUpdates = 0 /\ proc[r].cwdUpdates = 0 /\ ~proc[r].cwdPending
    /\ At(<<"update", r, "initCommand">>) # {} =>
         /\ fx = << <<"update", r, "initCommand">> >>
         /\ proc[r].opened
         /\ proc[r].cwdPending
         /\ proc[r].cwdUpdates = 0
         /\ doc.initCommand = Undefined
    /\ At(<<"update", r, "cwd">>) # {} =>
         /\ fx = << <<"update", r, "cwd">> >>
         /\ ~proc[r].cwdPending
         /\ proc[r].cwdUpdates = 1
         /\ doc.cwd # Undefined

C18_Witness ==
  \E r, q \in Runs :
    /\ r < q
    /\ run[q].by = "reconnect"
    /\ run[r].cmd.kind = "pty.shell"
    /\ run[r].cmd.initCommand # Undefined
    /\ run[q].cmd.kind = "pty.shell"
    /\ run[q].cmd.initCommand = Undefined
    /\ proc[q].opened
    /\ proc[q].initUpdates = 1
    /\ proc[q].cwdUpdates = 1

\* The protocol captured for a command of kind k ("": none).
ProtocolOf(k) ==
  IF k = "pty.tsh-login" THEN "ssh"
  ELSE IF k = "pty.tsh-kube-login" THEN "kube"
  ELSE ""

\* C19: usage is captured exactly once for a run whose process was created
\* from an ssh-login or a kube-login command, with protocol ssh or kube, in
\* the handler createPtyProcess returned to; never for a shell command,
\* never for a run whose creation failed or is pending, and by no other
\* handler.
C19_UsageCapture ==
  \A r \in Runs :
    LET captured == { i \in 1..Len(fx) :
                       fx[i][1] = "captureProtocolUse" /\ fx[i][2] = r }
        protocol == ProtocolOf(run[r].cmd.kind)
    IN /\ run[r].captures
            = (IF run[r].pc = "fulfilled" /\ protocol # "" THEN 1 ELSE 0)
       /\ \A o \in {"Ok", "ResolveShellEnvTimeout"} :
            CreateSettled(r, o) =>
              /\ Cardinality(captured) = (IF protocol = "" THEN 0 ELSE 1)
              /\ \A i \in captured : fx[i][3] = protocol
       /\ CreateSettled(r, "fail") => captured = {} /\ run[r].captures = 0
       /\ captured # {} =>
            CreateSettled(r, "Ok") \/ CreateSettled(r, "ResolveShellEnvTimeout")

C19_Witness ==
  \E r, q \in Runs :
    /\ run[r].cmd.kind = "pty.tsh-kube-login"
    /\ run[r].pc = "rejected"
    /\ run[r].createCalls = 1
    /\ run[r].captures = 0
    /\ CreateSettled(q, "Ok")
    /\ At(<<"captureProtocolUse", q, "kube">>) # {}
    /\ run[q].captures = 1

\* A run started after run r has itself written to the store.
NewerWrote(r) ==
  \E q \in Runs :
    /\ r < q
    /\ \/ run[q].resolvedUpdates > 0
       \/ run[q].errorUpdates > 0
       \/ proc[q].connectedUpdates > 0

\* C20: a run that a reconnect superseded writes nothing to the store
\* (status error, status connected, resolved fields) once a newer run has
\* written to it.
C20_StaleWritesDiscarded ==
  \A i \in 1..Len(fx) :
    (/\ fx[i][1] = "update"
     /\ fx[i][3] \in {"status:error", "status:connected", "resolved"})
    => ~NewerWrote(fx[i][2])

IsSetState(e) == e[1] = "setState"

\* The statuses the attempt goes through in a step: the one before it, then
\* the ones the handler set, in order.
AttemptPath ==
  LET set == SelectSeq(fx', IsSetState)
  IN <<attempt.status>> \o [i \in 1..Len(set) |-> set[i][3]]

\* idle -> running, running -> success, running -> error, and by reconnect
\* success -> running and error -> running.
AttemptTransitions ==
  { <<"", "processing">>, <<"processing", "success">>, <<"processing", "error">>,
    <<"success", "processing">>, <<"error", "processing">> }

\* A step changes the attempt only along the transitions; a reconnect while
\* running leaves it running.  The attempt becomes success with the process
\* of a run that returned, and error by a run that threw and has no live
\* process.
AttemptStep ==
  LET path == AttemptPath
  IN /\ \A i \in 1..(Len(path) - 1) :
          \/ <<path[i], path[i + 1]>> \in AttemptTransitions
          \/ /\ path[i] = "processing" /\ path[i + 1] = "processing"
             /\ run'[nRuns'].by = "reconnect"
     /\ attempt'.status = path[Len(path)]
     /\ \A r \in Runs :
          run'[r].pc \in {"unused", "lookup", "create", "fulfilled", "rejected"}
     /\ (attempt'.status = "success" /\ attempt # attempt') =>
          /\ run'[attempt'.data].pc = "fulfilled"
          /\ run'[attempt'.data].createCalls = 1
          /\ proc'[attempt'.data].state = "live"
     /\ (attempt'.status = "error" /\ attempt.status # "error") =>
          /\ run'[asyncTask'].pc = "rejected"
          /\ proc'[asyncTask'].state = "none"

Settles(r) == run[r].pc \in {"fulfilled", "rejected"}

\* No run is in flight: every run that was started has settled, and the
\* attempt of a mounted component is success or error.
Quiet ==
  /\ \A r \in Runs : run[r].pc = "unused" \/ Settles(r)
  /\ hook = "mounted" => attempt.status \in {"success", "error"}

\* C21: the attempt changes only idle -> running, running -> success,
\* running -> error and, by reconnect, success/error -> running; and, the
\* lookup and the creation of the process returning or failing in the end,
\* whenever a run is in flight there comes a state in which every run that
\* was started has settled (its promise fulfilled or rejected) and the
\* attempt of a mounted component has left running for success or error.
C21_AttemptStateMachine ==
  /\ [][AttemptStep]_vars
  /\ (InFlight # {}) ~> Quiet

C21_Witness ==
  \E r, q \in Runs :
    /\ r < q
    /\ run[r].pc = "rejected"
    /\ run[q].by = "reconnect"
    /\ run[q].pc = "fulfilled"
    /\ attempt = [status |-> "success", data |-> q]
    /\ At(<<"setState", q, "success">>) # {}

\* C22: the process of a run started by reconnect has a gate of its own: it
\* is unused until that process emits data, whatever the processes of
\* earlier runs have emitted, and its first data event sets the status to
\* connected again, once, also when the status was connected before the
\* reconnect.
C22_GatePerAttempt ==
  \A q \in Runs :
    (run[q].by = "reconnect" /\ TracksStatus(run[q].doc)) =>
      /\ (Emits(q) /\ proc[q].dataEvents = 0) =>
           proc[q].n = 2 /\ proc[q].connectedUpdates = 0
      /\ (Emits(q) /\ proc[q].dataEvents >= 1) =>
           proc[q].n = 2 - proc[q].dataEvents /\ proc[q].connectedUpdates = 1
      /\ At(<<"update", q, "status:connected">>) # {} =>
           proc[q].n = 1 /\ doc.status = "connected"

C22_Witness ==
  \E q \in Runs :
    /\ run[q].by = "reconnect"
    /\ run[q].doc.status = "connected"
    /\ proc[q].dataEvents = 1
    /\ At(<<"update", q, "status:connected">>) # {}
    /\ doc.status = "connected"

\* C23: in a run on a loginHost document no command is built while the
\* lookup is pending, and the handler that builds it has issued the
\* resolver's update of the store before: createCmd is called after that
\* update, with the resolved document, so that the command is an ssh login
\* with the serverId and the login the resolver returned, which are those
\* the store holds.
C23_ResolveBeforeBuild ==
  \A r \in Runs :
    /\ run[r].pc = "lookup" => run[r].builds = 0 /\ run[r].cmd = NoCmd
    /\ \A j \in 1..Len(fx) :
         (fx[j][1] = "createCmd" /\ fx[j][2] = r /\ run[r].lookups = 1) =>
           /\ \E i \in At(<<"update", r, "resolved">>) : i < j
           /\ fx[j][3] = "pty.tsh-login"
           /\ run[r].cmd.kind = "pty.tsh-login"
           /\ run[r].cmd.serverId # Undefined
           /\ run[r].cmd.serverId = doc.serverId
           /\ run[r].cmd.serverId
                = (IF LookupSettled(r, "found") THEN <<"u">> ELSE run[r].host)
           /\ run[r].cmd.login = run[r].login
           /\ run[r].cmd.login = doc.login

C23_Witness ==
  \E r \in Runs :
    /\ At(<<"update", r, "resolved">>) # {}
    /\ At(<<"createCmd", r, "pty.tsh-login">>) # {}
    /\ run[r].cmd.kind = "pty.tsh-login"
    /\ run[r].cmd.serverId = <<"u">>
    /\ run[r].cmd.login = <<"a">>
    /\ run[r].host = <<"b">>

\* C24: the status is set to connected only by the handler of a data event,
\* the first one, of a process that was created, and by nothing else in
\* that handler; the handler in which an attempt becomes
\* success does not set it; and the status of a document none of whose
\* runs has created a process is never connected.
C24_ConnectedOnlyByData ==
  /\ \A i \in 1..Len(fx) :
       (fx[i][1] = "update" /\ fx[i][3] = "status:connected") =>
         /\ Len(fx) = 1
         /\ run[fx[i][2]].pc = "fulfilled"
         /\ Emits(fx[i][2])
         /\ proc[fx[i][2]].dataEvents = 1
         /\ proc[fx[i][2]].connectedUpdates = 1
  /\ \A r \in Runs :
       (At(<<"setState", r, "success">>) # {} \/ At(<<"setState", r, "error">>) # {})
         => At(<<"update", r, "status:connected">>) = {}
  /\ doc.status = "connected" => \E r \in Runs : run[r].pc = "fulfilled"

C24_Witness ==
  \E r, q \in Runs :
    /\ run[r].pc = "rejected"
    /\ run[q].pc = "fulfilled"
    /\ attempt = [status |-> "success", data |-> q]
    /\ doc.status = "connected"
    /\ At(<<"update", q, "status:connected">>) # {}

\* The process handles the factory returned that are not disposed.
Undisposed == { r \in Runs : proc[r].state = "live" }

\* C25: at every moment at most one process handle is created and not
\* disposed: when createPtyProcess returns the process of a run, the handle
\* of every earlier run is disposed (or was never created).
C25_OneUndisposedHandle == Cardinality(Undisposed) <= 1

\* The updates and the close that the listeners of a process issue.
ListenerWrites == {"status:connected", "cwd", "initCommand"}

\* C26: on a status-tracking document, once a reconnect has started a run,
\* the events of the process of an earlier run update nothing and close
\* nothing: every update or close a listener issues is by the process of
\* the newest run, so only a data event of that process sets the status to
\* connected.
C26_SupersededHandleSilent ==
  (TracksStatus(doc) /\ nRuns > 0 /\ run[nRuns].by = "reconnect") =>
    \A i \in 1..Len(fx) :
      (\/ fx[i][1] = "update" /\ fx[i][3] \in ListenerWrites
       \/ fx[i][1] = "close")
      => fx[i][2] = nRuns

====
